---- MODULE Spec2Model ----
(***************************************************************************)
(* State-machine model of aitest.py: a Streamlit quiz application backed   *)
(* by one SQLite table.                                                    *)
(*                                                                         *)
(* One action of the model is one user interaction: the click or edit in   *)
(* the browser together with the complete top-to-bottom run of the script  *)
(* that it triggers (and the second run after st.rerun()).                 *)
(*                                                                         *)
(* Persistent state : attempts_table  (table "attempts" of quiz.db)       *)
(* Session state    : picked, submitted, user_answers                      *)
(* Widget state     : ans (the radios ans_<qid> of the form)               *)
(* Output of a run  : page                                                 *)
(* Record of the interaction that produced the state: op, pick_args (the   *)
(* sidebar values handed to pick_questions), results_to_save, wrong_list,  *)
(* score, final_score (the submit handler's locals)                        *)
(* History          : last_submit, table_before                            *)
(*                                                                         *)
(* The sidebar widgets are inputs: the user sets them freely between two   *)
(* clicks, so the run of a click reads arbitrary values of them.           *)
(*                                                                         *)
(* Specifications:                                                         *)
(*   Spec      the application, one session after another on one quiz.db   *)
(*   LoadSpec  load_questions on every small list of raw records           *)
(*   ScoreSpec the final_score line on every score and pick count          *)
(*   ConcSpec  two instances inside save_attempts_batch on one quiz.db     *)
(*   FreshSpec one session of fresh-mode rounds without reset, with the    *)
(*             user going on clicking (weak fairness)                      *)
(***************************************************************************)
EXTENDS Integers, Sequences, FiniteSets, TLC

VARIABLES
    attempts_table,   \* rows of table attempts(qid, is_correct, last_answer, correct_answer)
    picked,           \* st.session_state["picked"]
    submitted,        \* st.session_state["submitted"]
    user_answers,     \* st.session_state["user_answers"]
    ans,              \* value of radio ans_<qid>, per question ID
    page,             \* what the last run rendered below the sidebar
    op,               \* the interaction that produced this state
    pick_args,        \* <<n_input, avoid_seen, wrong_only>> of its pick_questions call, <<>> without one
    results_to_save,  \* local of its submit handler
    wrong_list,       \* local of its submit handler
    score,            \* local of its submit handler
    final_score,      \* local of its submit handler
    last_submit,      \* history: per question ID, the row of the latest committed submit since the last reset
    table_before,     \* history: the table before the interaction that produced this state
    data,             \* load_questions alone: the list parsed from questions.json
    normalized,       \* load_questions alone: the outcome of the call on data
    tally,            \* the score line alone: score, len(picked_qs) and final_score
    inst              \* two instances on one quiz.db: the save_attempts_batch call of each

\* the session, the store and the record of the last interaction
app_vars == <<attempts_table, picked, submitted, user_answers, ans, page, op,
              pick_args, results_to_save, wrong_list, score, final_score,
              last_submit, table_before>>

\* the variables of the specifications that run one function on its own
aux == <<data, normalized, tally, inst>>

vars == <<app_vars, aux>>

(***************************************************************************)
(* Bounds of the model.                                                    *)
(***************************************************************************)
\* number of records in questions.json
NumQ == 2

\* load_questions alone: the longest list of raw records
MaxRecords == 2

\* the score line alone: the largest number of picks
MaxPicks == 13

(***************************************************************************)
(* Program constants.                                                      *)
(***************************************************************************)
\* st.number_input("本次題數", 1, 100, 10): the smallest and the default value
NInputMin == 1
NInputDefault == 10

\* Python's None (index=None radio, absent session key, NULL column).
\* No choice text of the model's bank is this string.
None == "None"

\* an empty dict {}
EmptyDict == <<>>

(***************************************************************************)
(* Small helpers.                                                          *)
(***************************************************************************)
Min(a, b) == IF a <= b THEN a ELSE b

Range(s) == {s[i] : i \in DOMAIN s}

\* f"Q{raw_id:04d}"
FormatId(raw_id) ==
    IF raw_id < 0 THEN
        (IF raw_id > -10 THEN "Q-00" ELSE IF raw_id > -100 THEN "Q-0" ELSE "Q-")
            \o ToString(0 - raw_id)
    ELSE
        (IF raw_id < 10 THEN "Q000"
         ELSE IF raw_id < 100 THEN "Q00"
         ELSE IF raw_id < 1000 THEN "Q0"
         ELSE "Q") \o ToString(raw_id)

\* The bank the script works on (questions = load_questions()): NumQ valid
\* records with ids 1..NumQ, two options each, the answer index alternating
\* 1, 0, 1, ... so that Q0001 has answer "B" and Q0002 has answer "A".
\* Only the fields that reach the session and the store are kept; the
\* prompt and the explanation are display text.
ChoiceTexts == <<"A", "B">>

questions ==
    [i \in 1..NumQ |->
        [id      |-> FormatId(i),
         choices |-> ChoiceTexts,
         answer  |-> ChoiceTexts[(i % 2) + 1]]]

QIds == {questions[i].id : i \in DOMAIN questions}

(***************************************************************************)
(* load_questions.                                                         *)
(*                                                                         *)
(* A JSON value is a record [t, v]: t is its Python type after json.load   *)
(* and v its content. A text is the sequence of its characters, so that    *)
(* strip() and int() work on what the text holds. A raw question record    *)
(* (a dict) is a TLA+ record whose fields are the keys that are present.   *)
(***************************************************************************)
IntVal(n)      == [t |-> "int",   v |-> n]
\* a float, by its value in tenths: FloatVal(15) is 1.5
FloatVal(n10)  == [t |-> "float", v |-> n10]
StrVal(chars)  == [t |-> "str",   v |-> chars]
ListVal(elems) == [t |-> "list",  v |-> elems]

\* characters that str.strip() removes
Whitespace == {" ", "\t"}

Digits == <<"0", "1", "2", "3", "4", "5", "6", "7", "8", "9">>

RECURSIVE LStrip(_)
LStrip(s) == IF s # <<>> /\ Head(s) \in Whitespace THEN LStrip(Tail(s)) ELSE s

RECURSIVE RStrip(_)
RStrip(s) ==
    IF s # <<>> /\ s[Len(s)] \in Whitespace
    THEN RStrip(SubSeq(s, 1, Len(s) - 1)) ELSE s

\* s.strip()
Strip(s) == RStrip(LStrip(s))

\* the value of a sequence of decimal digits
RECURSIVE DigitsValue(_)
DigitsValue(s) ==
    IF s = <<>> THEN 0
    ELSE 10 * DigitsValue(SubSeq(s, 1, Len(s) - 1))
         + (CHOOSE d \in 0..9 : Digits[d + 1] = s[Len(s)])

\* the decimal digits of a natural number: str(n)
RECURSIVE IntChars(_)
IntChars(n) ==
    IF n < 10 THEN <<Digits[n + 1]>>
    ELSE Append(IntChars(n \div 10), Digits[(n % 10) + 1])

\* int(x): [raised, value]. An int is itself, a float is truncated towards
\* zero, a text is stripped and must be an optional sign and digits
\* (ValueError otherwise); a list raises TypeError.
IntOf(x) ==
    CASE x.t = "int"   -> [raised |-> "no", value |-> x.v]
      [] x.t = "float" -> [raised |-> "no",
                           value  |-> IF x.v >= 0 THEN x.v \div 10
                                      ELSE 0 - ((0 - x.v) \div 10)]
      [] x.t = "str"   ->
            LET s      == Strip(x.v)
                signed == s # <<>> /\ Head(s) \in {"+", "-"}
                body   == IF signed THEN Tail(s) ELSE s
            IN  IF body # <<>> /\ \A i \in DOMAIN body : body[i] \in Range(Digits)
                THEN [raised |-> "no",
                      value  |-> IF signed /\ Head(s) = "-"
                                 THEN 0 - DigitsValue(body)
                                 ELSE DigitsValue(body)]
                ELSE [raised |-> "ValueError", value |-> 0]
      [] OTHER         -> [raised |-> "TypeError", value |-> 0]

\* str(x) of an option: a text is itself, an integer is its digits
StrOf(x) ==
    IF x.t = "str" THEN x.v
    ELSE IF x.v < 0 THEN <<"-">> \o IntChars(0 - x.v) ELSE IntChars(x.v)

\* required_keys
required_keys == {"id", "question", "options", "answer"}

\* normalized = [], seen_ids = set(), nothing raised
LoadStart == [raised |-> "no", bank |-> <<>>, seen |-> {}]

\* the loop state after an exception: the call returns nothing
Raise(st, exc) == [raised |-> exc, bank |-> <<>>, seen |-> st.seen]

\* a loader without the seen_ids test
IsDuplicateNever(raw_id, seen) == FALSE

\* raw_id in seen_ids
IsDuplicate(raw_id, seen) == raw_id \in seen

\* 0 <= ans_idx < len(options): "yes", "no", or "TypeError" for a value that
\* does not compare with an integer
InRange(ans_idx, n_options) ==
    CASE ans_idx.t = "int"   ->
            IF 0 <= ans_idx.v /\ ans_idx.v < n_options THEN "yes" ELSE "no"
      [] ans_idx.t = "float" ->
            IF 0 <= ans_idx.v /\ ans_idx.v < 10 * n_options THEN "yes" ELSE "no"
      [] OTHER               -> "TypeError"

\* the dict appended to normalized, with the answer text stored as it is in
\* the source
NormalizedAnswerAsIs(raw_id, q, options, ans_idx) ==
    [id          |-> FormatId(raw_id),
     question    |-> Strip(q.question.v),
     choices     |-> [i \in DOMAIN options |-> Strip(StrOf(options[i]))],
     answer      |-> StrOf(options[ans_idx + 1]),
     explanation |-> IF "explanation" \in DOMAIN q
                     THEN Strip(q.explanation.v) ELSE <<>>]

\* the dict appended to normalized (options[ans_idx] is position
\* ans_idx + 1 of the sequence)
Normalized(raw_id, q, options, ans_idx) ==
    [id          |-> FormatId(raw_id),
     question    |-> Strip(q.question.v),
     choices     |-> [i \in DOMAIN options |-> Strip(StrOf(options[i]))],
     answer      |-> Strip(StrOf(options[ans_idx + 1])),
     explanation |-> IF "explanation" \in DOMAIN q
                     THEN Strip(q.explanation.v) ELSE <<>>]

\* one pass of "for i, q in enumerate(data)" from loop state st
LoadRecord(st, q) ==
    IF st.raised # "no" THEN st
    ELSE IF ~ (required_keys \subseteq DOMAIN q) THEN st
    ELSE
      LET id == IntOf(q.id)
      IN  IF id.raised # "no" THEN Raise(st, id.raised)
          ELSE IF IsDuplicate(id.value, st.seen) THEN st
          ELSE
            LET seen    == st.seen \cup {id.value}
                skipped == [st EXCEPT !.seen = seen]
                options == q.options
                ans_idx == q.answer
            IN  IF options.t # "list" \/ Len(options.v) < 2 THEN skipped
                ELSE
                  LET in_range == InRange(ans_idx, Len(options.v))
                  IN  IF in_range = "TypeError" THEN Raise(skipped, "TypeError")
                      ELSE IF in_range = "no" THEN skipped
                      ELSE IF q.question.t # "str"
                           THEN Raise(skipped, "AttributeError")
                      ELSE IF ans_idx.t # "int"
                           THEN Raise(skipped, "TypeError")
                      ELSE IF "explanation" \in DOMAIN q /\ q.explanation.t # "str"
                           THEN Raise(skipped, "AttributeError")
                      ELSE [skipped EXCEPT !.bank =
                              Append(@, Normalized(id.value, q, options.v, ans_idx.v))]

\* the loop over the first k records of data
RECURSIVE LoadLoop(_, _)
LoadLoop(records, k) ==
    IF k = 0 THEN LoadStart
    ELSE LoadRecord(LoadLoop(records, k - 1), records[k])

\* load_questions() on the list records parsed from the file: what it
\* raised ("no" when it returned) and the list it returned. An empty list is
\* reported with st.error and gives [].
load_questions(records) ==
    LET st == LoadLoop(records, Len(records))
    IN  [raised |-> st.raised, bank |-> st.bank]

(***************************************************************************)
(* Database functions.                                                     *)
(***************************************************************************)
\* The table right after CREATE TABLE IF NOT EXISTS on a new file.
init_db == {}

\* SELECT qid, is_correct, last_answer, correct_answer FROM attempts, then the
\* dict comprehension {r[0]: {...} for r in rows}.
load_attempts(table) ==
    [q \in {r.qid : r \in table} |->
        LET r == CHOOSE x \in table : x.qid = q
        IN  [is_correct     |-> r.is_correct,
             last_answer    |-> r.last_answer,
             correct_answer |-> r.correct_answer]]

\* a tuple that records every result as correct
RowOfAlwaysCorrect(r) ==
    [qid            |-> r.qid,
     is_correct     |-> 1,
     last_answer    |-> r.user_ans,
     correct_answer |-> r.correct_ans]

\* the tuple handed to executemany for one result: int(r["is_correct"])
RowOf(r) ==
    [qid            |-> r.qid,
     is_correct     |-> IF r.is_correct THEN 1 ELSE 0,
     last_answer    |-> r.user_ans,
     correct_answer |-> r.correct_ans]

\* INSERT without the ON CONFLICT clause on a table that has lost its primary
\* key: the row is appended next to the one already there.
UpsertAppend(table, row) == table \cup {row}

\* an upsert whose DO UPDATE sets last_answer only
UpsertAnswerOnly(table, row) ==
    IF \E x \in table : x.qid = row.qid
    THEN {IF x.qid = row.qid
          THEN [x EXCEPT !.last_answer = row.last_answer]
          ELSE x : x \in table}
    ELSE table \cup {row}

\* INSERT INTO attempts ... ON CONFLICT(qid) DO UPDATE SET is_correct, last_answer,
\* correct_answer = excluded.*: the row with this qid is overwritten in place,
\* or the row is inserted when qid PRIMARY KEY is not there yet.
Upsert(table, row) ==
    IF \E x \in table : x.qid = row.qid
    THEN {IF x.qid = row.qid
          THEN [x EXCEPT !.is_correct     = row.is_correct,
                         !.last_answer    = row.last_answer,
                         !.correct_answer = row.correct_answer]
          ELSE x : x \in table}
    ELSE table \cup {row}

\* conn.executemany(...) stopped after its first k parameter tuples: the
\* content of the table as the writing connection sees it.
RECURSIVE executemany(_, _, _)
executemany(table, results, k) ==
    IF k = 0 THEN table
    ELSE Upsert(executemany(table, results, k - 1), RowOf(results[k]))

\* The steps of one save_attempts_batch call that can raise: the statement of
\* tuple 1..Len(results), then conn.commit(). fault = 0 is a call in which
\* nothing raises; fault = s is a call whose step s raises (or at which the
\* process is killed).
Faults(results) == 0..(Len(results) + 1)

\* a connection in autocommit mode (isolation_level=None): every tuple is
\* durable as soon as its statement has run
save_attempts_batch_autocommit(table, results, fault) ==
    IF fault = 0
    THEN [raised |-> FALSE, table |-> executemany(table, results, Len(results))]
    ELSE [raised |-> TRUE,  table |-> executemany(table, results, fault - 1)]

\* a save that empties the table before writing the batch
save_attempts_batch_replace(table, results, fault) ==
    IF fault = 0
    THEN [raised |-> FALSE, table |-> executemany({}, results, Len(results))]
    ELSE [raised |-> TRUE,  table |-> table]

\* save_attempts_batch(results). sqlite3 opens a transaction before the first
\* INSERT; the rows become the table's content at conn.commit(). When a step
\* raises, commit() is never reached and the open transaction is rolled back
\* as the connection goes away, so the table is what it was.
\* Result: whether the call raised, and the table afterwards.
save_attempts_batch(table, results, fault) ==
    IF fault = 0
    THEN [raised |-> FALSE, table |-> executemany(table, results, Len(results))]
    ELSE [raised |-> TRUE,  table |-> table]

\* a reset that only forgets the wrong answers
reset_progress_wrong_rows(table) == {r \in table : r.is_correct = 1}

\* reset_progress(): DELETE FROM attempts; commit
reset_progress(table) == {}

(***************************************************************************)
(* Picking questions.                                                      *)
(***************************************************************************)
\* seen_ids = set(attempts.keys())
seen_ids(attempts) == DOMAIN attempts

\* wrong_ids = {qid for qid, v in attempts.items() if v["is_correct"] == 0}
wrong_ids(attempts) == {qid \in DOMAIN attempts : attempts[qid].is_correct = 0}

\* [q for q in all_questions if <q["id"] in / not in ids>]
FilterById(all_questions, ids, keep_members) ==
    LET Test(q) == (q.id \in ids) = keep_members
    IN  SelectSeq(all_questions, Test)

\* the pool with the unattempted questions taken for the seen ones
PoolFreshComplement(all_questions, attempts, avoid, use_wrong_only) ==
    IF use_wrong_only THEN FilterById(all_questions, wrong_ids(attempts), TRUE)
    ELSE IF avoid THEN FilterById(all_questions, wrong_ids(attempts), FALSE)
    ELSE all_questions

\* the pool with the two mode tests in the other order
PoolAvoidFirst(all_questions, attempts, avoid, use_wrong_only) ==
    IF avoid THEN FilterById(all_questions, seen_ids(attempts), FALSE)
    ELSE IF use_wrong_only THEN FilterById(all_questions, wrong_ids(attempts), TRUE)
    ELSE all_questions

\* a pool that never looks at the attempts
PoolWholeBank(all_questions, attempts, avoid, use_wrong_only) == all_questions

\* pool, as built by the if / elif / else of pick_questions
Pool(all_questions, attempts, avoid, use_wrong_only) ==
    IF use_wrong_only THEN FilterById(all_questions, wrong_ids(attempts), TRUE)
    ELSE IF avoid THEN FilterById(all_questions, seen_ids(attempts), FALSE)
    ELSE all_questions

\* random.sample(pool, k): every sequence of k elements at pairwise distinct
\* positions of pool is a possible result
Sample(pool, k) ==
    {[i \in 1..k |-> pool[f[i]]] :
        f \in {g \in [1..k -> 1..Len(pool)] :
                 \A i, j \in 1..k : i # j => g[i] # g[j]}}

\* a pick that hands out the whole pool whatever the requested count
pick_questions_whole_pool(all_questions, attempts, n, avoid, use_wrong_only) ==
    LET pool == Pool(all_questions, attempts, avoid, use_wrong_only)
    IN  IF pool = <<>> THEN {<<>>}
        ELSE Sample(pool, Len(pool))

\* pick_questions(all_questions, attempts, n, avoid_seen, use_wrong_only):
\* the set of its possible results
pick_questions(all_questions, attempts, n, avoid, use_wrong_only) ==
    LET pool == Pool(all_questions, attempts, avoid, use_wrong_only)
    IN  IF pool = <<>> THEN {<<>>}
        ELSE Sample(pool, Min(n, Len(pool)))

(***************************************************************************)
(* The submit handler.                                                     *)
(***************************************************************************)
\* grading that counts every answered question as correct
IsCorrectAnyAnswer(user_ans, correct_ans) == user_ans # None

\* is_correct = (user_ans == correct_ans)
IsCorrect(user_ans, correct_ans) == user_ans = correct_ans

\* for q in picked_qs: ... over the picks from position i on, with the
\* handler's locals so far in acc. widget[qid] is
\* st.session_state.get(f"ans_{qid}").
RECURSIVE submit_loop(_, _, _, _)
submit_loop(picked_qs, widget, i, acc) ==
    IF i > Len(picked_qs) THEN acc
    ELSE
        LET q           == picked_qs[i]
            qid         == q.id
            user_ans    == widget[qid]
            correct_ans == q.answer
            is_correct  == IsCorrect(user_ans, correct_ans)
        IN  submit_loop(picked_qs, widget, i + 1,
                [score           |-> IF is_correct THEN acc.score + 1 ELSE acc.score,
                 wrong_list      |-> IF is_correct THEN acc.wrong_list
                                     ELSE Append(acc.wrong_list,
                                                 [q |-> q, user_ans |-> user_ans]),
                 results_to_save |-> Append(acc.results_to_save,
                                            [qid         |-> qid,
                                             is_correct  |-> is_correct,
                                             user_ans    |-> user_ans,
                                             correct_ans |-> correct_ans])])

\* results_to_save = []; score = 0; wrong_list = []
LoopStart == [score |-> 0, wrong_list |-> <<>>, results_to_save |-> <<>>]

\* int(score / len(picked_qs) * 100). The float product is within 1e-13 of
\* the exact quotient, and for the pick counts of this model never falls
\* below an integer the exact value reaches, so int() is the integer floor.
FinalScore(sc, n) == (sc * 100) \div n

\* a handler that marks the session and reports before it saves, and
\* swallows the storage error
submit_handler_swallow(table, picked_qs, sub, widget, fault) ==
    LET g == submit_loop(picked_qs, widget, 1, LoopStart)
        s == save_attempts_batch(table, g.results_to_save, fault)
    IN  [table           |-> s.table,
         raised          |-> FALSE,
         submitted       |-> TRUE,
         page            |-> "result",
         results_to_save |-> g.results_to_save,
         wrong_list      |-> g.wrong_list,
         score           |-> g.score,
         final_score     |-> FinalScore(g.score, Len(picked_qs))]

\* if submitted: ... : the grading loop, save_attempts_batch, then the flag
\* and the score. An exception of save_attempts_batch ends the run there:
\* the flag is not assigned, final_score is never bound and Streamlit shows
\* the exception under the form.
submit_handler(table, picked_qs, sub, widget, fault) ==
    LET g == submit_loop(picked_qs, widget, 1, LoopStart)
        s == save_attempts_batch(table, g.results_to_save, fault)
    IN  IF s.raised
        THEN [table           |-> s.table,
              raised          |-> TRUE,
              submitted       |-> sub,
              page            |-> "save_error",
              results_to_save |-> g.results_to_save,
              wrong_list      |-> g.wrong_list,
              score           |-> g.score,
              final_score     |-> None]
        ELSE [table           |-> s.table,
              raised          |-> FALSE,
              submitted       |-> TRUE,
              page            |-> "result",
              results_to_save |-> g.results_to_save,
              wrong_list      |-> g.wrong_list,
              score           |-> g.score,
              final_score     |-> FinalScore(g.score, Len(picked_qs))]

(***************************************************************************)
(* The state machine.                                                      *)
(***************************************************************************)
\* values the user gives the number_input: the smallest one, which is below
\* the size of every pool of two or more, and the default, which is above
\* the size of the bank
Counts == {NInputMin, NInputDefault}

\* the page below the sidebar of a run without a button: st.info and
\* st.stop() when nothing is picked, the form otherwise
FormPage(picked_qs) == IF picked_qs = <<>> THEN "info" ELSE "form"

\* pages on which the form and its submit button are on screen
FormOnScreen == page \in {"form", "result", "save_error"}

\* the question IDs that have a row
IdsOf(table) == {r.qid : r \in table}

\* no radio holds a value
NoAnswers == [q \in QIds |-> None]

\* an interaction that does not enter the submit handler binds none of its
\* locals
NoSubmitLocals ==
    /\ results_to_save' = <<>>
    /\ wrong_list' = <<>>
    /\ score' = 0
    /\ final_score' = None

\* The state of a new browser session: the three
\* "if ... not in st.session_state" initialisations, no radio, st.info.
NewSession ==
    /\ picked' = <<>>
    /\ submitted' = FALSE
    /\ user_answers' = EmptyDict
    /\ ans' = NoAnswers
    /\ page' = "info"
    /\ pick_args' = <<>>
    /\ NoSubmitLocals

\* load_questions has not been called
NotLoaded == [raised |-> "not called", bank |-> <<>>]

\* the score line has not been run
NotScored == [score |-> 0, n |-> 0, final_score |-> 0, done |-> FALSE]

\* no function is run on its own
AuxIdle ==
    /\ data = <<>>
    /\ normalized = NotLoaded
    /\ tally = NotScored
    /\ inst = <<>>

\* the store and the session before the first interaction
AppInit ==
    /\ attempts_table = init_db
    /\ picked = <<>>
    /\ submitted = FALSE
    /\ user_answers = EmptyDict
    /\ ans = NoAnswers
    /\ page = "info"
    /\ op = "open"
    /\ pick_args = <<>>
    /\ results_to_save = <<>>
    /\ wrong_list = <<>>
    /\ score = 0
    /\ final_score = None
    /\ last_submit = EmptyDict
    /\ table_before = init_db

Init ==
    /\ AppInit
    /\ AuxIdle

\* The page is opened again in a new session (session state is per browser
\* session; quiz.db stays).
Reload ==
    /\ UNCHANGED aux
    /\ op # "open"
    /\ NewSession
    /\ op' = "open"
    /\ table_before' = attempts_table
    /\ UNCHANGED <<attempts_table, last_submit>>

\* The user edits a sidebar widget; the script runs with no button pressed
\* and renders the page without a result.
Rerun ==
    /\ UNCHANGED aux
    /\ page' = FormPage(picked)
    /\ op' = "rerun"
    /\ pick_args' = <<>>
    /\ NoSubmitLocals
    /\ table_before' = attempts_table
    /\ UNCHANGED <<attempts_table, picked, submitted, user_answers, ans, last_submit>>

\* What the framework may do with the values of the radios that are rendered
\* again: keep them (TRUE) or drop them (FALSE). There is a choice only when
\* a newly picked question has a value.
KeepOrDrop(new, widget) ==
    IF \E i \in DOMAIN new : widget[new[i].id] # None
    THEN BOOLEAN ELSE {FALSE}

\* "開始/重新抽題": attempts = load_attempts(), pick_questions, the three
\* session assignments, st.rerun(), and the run after it. The handler leaves
\* the ans_<qid> entries alone. A radio that is not rendered in the run after
\* st.rerun() loses its value; the value of a radio whose key is rendered
\* again (the question is picked again) is kept or dropped by the framework
\* (keep).
Start ==
    /\ UNCHANGED aux
    /\ \E n_input \in Counts, avoid_seen \in BOOLEAN, wrong_only \in BOOLEAN :
      \E new \in pick_questions(questions, load_attempts(attempts_table),
                                n_input, avoid_seen, wrong_only) :
       \E keep \in KeepOrDrop(new, ans) :
        /\ picked' = new
        /\ submitted' = FALSE
        /\ user_answers' = EmptyDict
        /\ ans' = [q \in QIds |->
                     IF keep /\ q \in {new[i].id : i \in DOMAIN new}
                     THEN ans[q] ELSE None]
        /\ page' = FormPage(new)
        /\ op' = "start"
        /\ pick_args' = <<n_input, avoid_seen, wrong_only>>
        /\ NoSubmitLocals
        /\ table_before' = attempts_table
        /\ UNCHANGED <<attempts_table, last_submit>>

\* The user selects a choice of a radio in the form. Inside st.form this
\* runs no script; the value is read by the run of the next submit.
SetAnswer ==
    /\ UNCHANGED aux
    /\ FormOnScreen
    /\ \E i \in DOMAIN picked :
         \E c \in Range(picked[i].choices) \ {ans[picked[i].id]} :
            ans' = [ans EXCEPT ![picked[i].id] = c]
    /\ op' = "setAnswer"
    /\ pick_args' = <<>>
    /\ NoSubmitLocals
    /\ table_before' = attempts_table
    /\ UNCHANGED <<attempts_table, picked, submitted, user_answers, page,
                   last_submit>>

\* "交卷": the run with submitted = True of the form's submit button. The
\* button is on screen whenever the form is, before and after a grading.
\* r is the outcome of the handler for the chosen fault.
Submit ==
    /\ UNCHANGED aux
    /\ FormOnScreen
    /\ \E fault \in Faults(picked) :
         \E r \in {submit_handler(attempts_table, picked, submitted, ans, fault)} :
             /\ attempts_table' = r.table
             /\ submitted' = r.submitted
             /\ page' = r.page
             /\ results_to_save' = r.results_to_save
             /\ wrong_list' = r.wrong_list
             /\ score' = r.score
             /\ final_score' = r.final_score
             /\ op' = IF r.raised THEN "submit_failed" ELSE "submit"
             /\ last_submit' =
                  IF r.raised THEN last_submit
                  ELSE LET batch == r.results_to_save
                           ids   == {batch[i].qid : i \in DOMAIN batch}
                           Latest(q) == CHOOSE i \in DOMAIN batch :
                               /\ batch[i].qid = q
                               /\ \A j \in DOMAIN batch : batch[j].qid = q => j <= i
                       IN  [q \in (DOMAIN last_submit) \cup ids |->
                              IF q \in ids THEN RowOf(batch[Latest(q)])
                              ELSE last_submit[q]]
    /\ pick_args' = <<>>
    /\ table_before' = attempts_table
    /\ UNCHANGED <<picked, user_answers, ans>>

\* "重置所有進度": reset_progress(), st.session_state.clear(), st.rerun() and
\* the run after it, which initialises the session again and stops at
\* st.info.
Reset ==
    /\ UNCHANGED aux
    /\ attempts_table' = reset_progress(attempts_table)
    /\ NewSession
    /\ op' = "reset"
    /\ last_submit' = EmptyDict
    /\ table_before' = attempts_table

\* reset_progress() raises (the database is locked or cannot be written):
\* the run ends at that line, before the session is cleared and before the
\* form is rendered.
ResetFail ==
    /\ UNCHANGED aux
    /\ page' = "reset_error"
    /\ op' = "reset_failed"
    /\ pick_args' = <<>>
    /\ NoSubmitLocals
    /\ table_before' = attempts_table
    /\ UNCHANGED <<attempts_table, picked, submitted, user_answers, ans,
                   last_submit>>

Next ==
    \/ Reload
    \/ Rerun
    \/ Start
    \/ SetAnswer
    \/ Submit
    \/ Reset
    \/ ResetFail

Spec == Init /\ [][Next]_vars

(***************************************************************************)
(* load_questions on its own: the call on every list of at most MaxRecords *)
(* raw records.                                                            *)
(***************************************************************************)
\* texts of the raw records
PromptPadded == <<" ", "P", "1", "\t">>
PromptPlain  == <<"P", "2">>
PromptBlank  == <<" ", " ">>

OptionsAB  == ListVal(<<StrVal(<<" ", "A">>), StrVal(<<"B", " ">>)>>)
OptionsYNM == ListVal(<<StrVal(<<"Y">>), StrVal(<<" ", "N", " ">>), StrVal(<<"M">>)>>)

\* a raw record with the four required keys
Raw(id, question, options, answer) ==
    [id |-> id, question |-> question, options |-> options, answer |-> answer]

\* records that satisfy the input schema: an integer or integer-like id, a
\* prompt, two or more option texts, an integer index of an option, and an
\* explanation text or none. The first two have the same id.
ValidRecords ==
    { Raw(IntVal(1), StrVal(PromptPadded), OptionsAB, IntVal(0)),
      [id          |-> StrVal(<<" ", "1">>),
       question    |-> StrVal(PromptPlain),
       options     |-> OptionsYNM,
       answer      |-> IntVal(1),
       explanation |-> StrVal(<<" ", "e">>)],
      Raw(IntVal(12), StrVal(PromptPlain), OptionsYNM, IntVal(2)) }

\* records with one defect each, all with id 3
MissingField    == [id |-> IntVal(3), question |-> StrVal(PromptPlain), options |-> OptionsAB]
IdNotInteger    == Raw(StrVal(<<"x">>), StrVal(PromptPlain), OptionsAB, IntVal(0))
BlankPrompt     == Raw(IntVal(3), StrVal(PromptBlank), OptionsAB, IntVal(0))
PromptNotString == Raw(IntVal(3), IntVal(5), OptionsAB, IntVal(0))
OneOption       == Raw(IntVal(3), StrVal(PromptPlain), ListVal(<<StrVal(<<"A">>)>>), IntVal(0))
OptionsNotList  == Raw(IntVal(3), StrVal(PromptPlain), StrVal(<<"A", "B">>), IntVal(0))
IndexTooLarge   == Raw(IntVal(3), StrVal(PromptPlain), OptionsAB, IntVal(2))
IndexNegative   == Raw(IntVal(3), StrVal(PromptPlain), OptionsAB, IntVal(-1))
IndexFloat      == Raw(IntVal(3), StrVal(PromptPlain), OptionsAB, FloatVal(10))
IndexString     == Raw(IntVal(3), StrVal(PromptPlain), OptionsAB, StrVal(<<"1">>))

InvalidRecords ==
    { MissingField, IdNotInteger, BlankPrompt, PromptNotString, OneOption,
      OptionsNotList, IndexTooLarge, IndexNegative, IndexFloat, IndexString }

RawRecords == ValidRecords \cup InvalidRecords

\* the lists json.load can hand to the loop
Sources == UNION {[1..k -> RawRecords] : k \in 0..MaxRecords}

LoadInit ==
    /\ AppInit
    /\ data \in Sources
    /\ normalized = NotLoaded
    /\ tally = NotScored
    /\ inst = <<>>

\* questions = load_questions()
Load ==
    /\ normalized = NotLoaded
    /\ normalized' = load_questions(data)
    /\ UNCHANGED <<app_vars, data, tally, inst>>

LoadNext == Load

LoadSpec == LoadInit /\ [][LoadNext]_vars

(***************************************************************************)
(* The score line on its own: every pick count up to MaxPicks with every   *)
(* count of correct answers.                                               *)
(***************************************************************************)
ScoreInit ==
    /\ AppInit
    /\ data = <<>>
    /\ normalized = NotLoaded
    /\ inst = <<>>
    /\ \E n \in 1..MaxPicks, sc \in 0..MaxPicks :
         /\ sc <= n
         /\ tally = [score |-> sc, n |-> n, final_score |-> 0, done |-> FALSE]

\* final_score = int(score / len(picked_qs) * 100)
ScoreLine ==
    /\ ~ tally.done
    /\ tally' = [tally EXCEPT !.final_score = FinalScore(tally.score, tally.n),
                              !.done = TRUE]
    /\ UNCHANGED <<app_vars, data, normalized, inst>>

ScoreNext == ScoreLine

ScoreSpec == ScoreInit /\ [][ScoreNext]_vars

(***************************************************************************)
(* Two instances of the application on one quiz.db, each inside a call of  *)
(* save_attempts_batch. One step is one step of one connection: the        *)
(* implicit BEGIN with the first INSERT, one INSERT, the commit.           *)
(***************************************************************************)
Instances == {1, 2}

\* the batches a submit handler can hand to save_attempts_batch: the picks
\* are a non-empty part of the bank, taken in bank order, each radio holds
\* nothing or a choice
Batches ==
    {submit_loop(FilterById(questions, ids, TRUE), widget, 1, LoopStart).results_to_save :
        ids \in (SUBSET QIds) \ {{}},
        widget \in [QIds -> {None} \cup Range(ChoiceTexts)]}

\* an instance whose handler is about to call save_attempts_batch(batch)
Ready(batch) == [pc |-> "ready", batch |-> batch, k |-> 0, work |-> {}]

ConcInit ==
    /\ AppInit
    /\ data = <<>>
    /\ normalized = NotLoaded
    /\ tally = NotScored
    /\ inst \in [Instances -> {Ready(b) : b \in Batches}]

\* everything but the shared table and the instances
conc_frame ==
    <<picked, submitted, user_answers, ans, page, op, pick_args,
      results_to_save, wrong_list, score, final_score, last_submit,
      table_before, data, normalized, tally>>

\* some connection holds the write lock of the database file
Locked == \E j \in Instances : inst[j].pc = "writing"

\* The first INSERT of executemany opens the transaction and takes the write
\* lock: the connection works on the committed table from here on.
Begin(i) ==
    /\ inst[i].pc = "ready"
    /\ ~ Locked
    /\ inst' = [inst EXCEPT ![i].pc = "writing", ![i].work = attempts_table]
    /\ UNCHANGED <<attempts_table, conc_frame>>

\* The write lock is held by the other connection for longer than the busy
\* timeout of sqlite3.connect: executemany raises "database is locked".
Busy(i) ==
    /\ inst[i].pc = "ready"
    /\ Locked
    /\ inst' = [inst EXCEPT ![i].pc = "failed"]
    /\ UNCHANGED <<attempts_table, conc_frame>>

\* the INSERT ... ON CONFLICT of the next parameter tuple
Insert(i) ==
    /\ inst[i].pc = "writing"
    /\ inst[i].k < Len(inst[i].batch)
    /\ inst' = [inst EXCEPT
                  ![i].k = @ + 1,
                  ![i].work = Upsert(@, RowOf(inst[i].batch[inst[i].k + 1]))]
    /\ UNCHANGED <<attempts_table, conc_frame>>

\* conn.commit(): the rows of the transaction become the table
Commit(i) ==
    /\ inst[i].pc = "writing"
    /\ inst[i].k = Len(inst[i].batch)
    /\ attempts_table' = inst[i].work
    /\ inst' = [inst EXCEPT ![i].pc = "committed", ![i].work = {}]
    /\ UNCHANGED conc_frame

\* a statement or the commit raises, or the process is killed: the
\* transaction is rolled back and the lock released
Abort(i) ==
    /\ inst[i].pc = "writing"
    /\ inst' = [inst EXCEPT ![i].pc = "failed", ![i].work = {}]
    /\ UNCHANGED <<attempts_table, conc_frame>>

ConcNext ==
    \/ \E i \in Instances : Begin(i)
    \/ \E i \in Instances : Busy(i)
    \/ \E i \in Instances : Insert(i)
    \/ \E i \in Instances : Commit(i)
    \/ \E i \in Instances : Abort(i)

ConcSpec == ConcInit /\ [][ConcNext]_vars

(***************************************************************************)
(* One session that keeps playing rounds in fresh mode and never resets:   *)
(* the start button with "avoid seen" ticked, "wrong only" not ticked and  *)
(* the smallest count, so that a bank of NumQ questions takes NumQ rounds; *)
(* the radios; the submit button. Every click runs the script to its end,  *)
(* and the user goes on clicking: a start or a committed submit that stays *)
(* possible is eventually done.                                            *)
(***************************************************************************)
FreshStart ==
    /\ Start
    /\ pick_args' = <<NInputMin, TRUE, FALSE>>

SubmitCommitted ==
    /\ Submit
    /\ op' = "submit"

SubmitFailed ==
    /\ Submit
    /\ op' = "submit_failed"

FreshNext ==
    \/ FreshStart
    \/ SetAnswer
    \/ SubmitCommitted
    \/ SubmitFailed

FreshSpec ==
    /\ Init
    /\ [][FreshNext]_vars
    /\ WF_vars(FreshStart)
    /\ WF_vars(SubmitCommitted)

(***************************************************************************)
(* Properties.                                                             *)
(***************************************************************************)
\* the IDs of a sequence of questions
PickIds(picked_qs) == {picked_qs[i].id : i \in DOMAIN picked_qs}

\* C1: the attempt store holds at most one row per question ID, and for
\* every question submitted since the last reset that row is the row of the
\* most recent committed submit that included the question.
C1_OneRowPerIdLatestSubmit ==
    /\ \A r1, r2 \in attempts_table : r1.qid = r2.qid => r1 = r2
    /\ \A q \in DOMAIN last_submit :
         \A r \in attempts_table : r.qid = q => r = last_submit[q]
    /\ DOMAIN last_submit \subseteq IdsOf(attempts_table)

\* C1 witness: a committed submit has just overwritten the row of a question
\* that was recorded as wrong with a correct answer.
C1_Witness ==
    /\ op = "submit"
    /\ \E i \in DOMAIN results_to_save :
         /\ results_to_save[i].is_correct
         /\ \E r \in table_before :
              r.qid = results_to_save[i].qid /\ r.is_correct = 0

\* the positions of the picks whose radio value is not the correct answer
WrongPositions(picked_qs, widget) ==
    LET Wrong(i) == widget[picked_qs[i].id] # picked_qs[i].answer
    IN  SelectSeq([i \in 1..Len(picked_qs) |-> i], Wrong)

\* C2: after a submit the batch holds one record per pick, in pick order,
\* is_correct being true iff the recorded answer is the question's answer
\* text (an unanswered question has answer None and is_correct false); the
\* committed batch is in the table; wrong_list is the subsequence of the
\* incorrect picks, in pick order, each with the user's answer.
C2_BatchAndWrongList ==
    op = "submit" =>
        /\ Len(results_to_save) = Len(picked)
        /\ \A i \in DOMAIN picked :
             LET rec == results_to_save[i]
                 a   == ans[picked[i].id]
             IN  /\ rec.qid = picked[i].id
                 /\ rec.user_ans = a
                 /\ rec.correct_ans = picked[i].answer
                 /\ rec.is_correct = (a = picked[i].answer)
                 /\ (a = None => ~rec.is_correct)
                 /\ RowOf(rec) \in attempts_table
        /\ LET w == WrongPositions(picked, ans)
           IN  /\ Len(wrong_list) = Len(w)
               /\ \A j \in DOMAIN w :
                    /\ wrong_list[j].q = picked[w[j]]
                    /\ wrong_list[j].user_ans = ans[picked[w[j]].id]
        /\ score = Len(picked) - Len(wrong_list)

\* C2 witness: picks [Q0001 (answer "B"), Q0002 (answer "A")] submitted with
\* the answers "B" and "B": one correct, one wrong.
C2_Witness ==
    /\ op = "submit"
    /\ Len(picked) = 2
    /\ picked[1].id = "Q0001" /\ picked[2].id = "Q0002"
    /\ ans["Q0001"] = "B" /\ ans["Q0002"] = "B"
    /\ score = 1
    /\ Len(wrong_list) = 1

\* the questions of the bank without a row in the table
Unattempted == {q \in QIds : q \notin IdsOf(attempts_table)}

\* C3: a start in fresh mode (avoid_seen set, wrong_only not set) picks only
\* questions without a row, and when the requested count is at least the
\* number of unattempted questions it picks every one of them, once each.
C3_FreshPick ==
    (op = "start" /\ pick_args[2] /\ ~pick_args[3]) =>
        /\ PickIds(picked) \subseteq Unattempted
        /\ pick_args[1] >= Cardinality(Unattempted) =>
             /\ PickIds(picked) = Unattempted
             /\ Len(picked) = Cardinality(Unattempted)

\* C3 witness: a fresh-mode start asking for more than is left, with part of
\* the bank attempted: it picks the rest.
C3_Witness ==
    /\ op = "start" /\ pick_args[2] /\ ~pick_args[3]
    /\ pick_args[1] > Cardinality(Unattempted)
    /\ attempts_table # {}
    /\ picked # <<>>

\* the question IDs whose row has is_correct 0
WrongRows == {r.qid : r \in {x \in attempts_table : x.is_correct = 0}}

\* C4: a start with wrong_only set picks only questions whose row has
\* is_correct 0, and picks nothing when there is no such row, with
\* avoid_seen set or not.
C4_WrongOnlyPick ==
    (op = "start" /\ pick_args[3]) =>
        /\ PickIds(picked) \subseteq WrongRows
        /\ WrongRows = {} => picked = <<>>
        /\ WrongRows # {} => picked # <<>>

\* C4 witness: wrong_only together with avoid_seen (the sidebar default)
\* picks a missed question while an unattempted one exists.
C4_Witness ==
    /\ op = "start" /\ pick_args[3] /\ pick_args[2]
    /\ picked # <<>>
    /\ Unattempted # {}

\* C4: second witness, the empty wrong list.
C4_WitnessEmpty ==
    /\ op = "start" /\ pick_args[3]
    /\ attempts_table # {}
    /\ picked = <<>>

\* C5: once the session is graded (submitted is set), no submit grades it
\* again before a start replaces it.
C5_GradedOnce == [][submitted => op' # "submit"]_vars

\* C6: right after start, submitted is false and no picked question has a
\* recorded answer.
C6_StartHasNoAnswers ==
    op = "start" =>
        /\ submitted = FALSE
        /\ \A i \in DOMAIN picked : ans[picked[i].id] = None

\* C7: a batch write is all or nothing: after a submit, failed or not, the
\* table is what it was or holds every row of the batch.
C7_AllOrNothing ==
    [][op' \in {"submit", "submit_failed"} =>
         \/ attempts_table' = attempts_table
         \/ \A i \in DOMAIN results_to_save' :
              RowOf(results_to_save'[i]) \in attempts_table']_vars

\* C7 witness: a save of a batch of two that failed on an empty table.
C7_Witness ==
    /\ op = "submit_failed"
    /\ Len(results_to_save) = 2
    /\ attempts_table = {}

\* C8: a score is reported only by a submit that has committed the batch
\* and marked the session; a failed save reports no score, leaves the
\* submitted flag as it was, leaves the table alone and shows the error.
C8_PersistBeforeScore ==
    [][/\ op' = "submit_failed" =>
            /\ submitted' = submitted
            /\ page' = "save_error"
            /\ final_score' = None
            /\ attempts_table' = attempts_table
       /\ (page' = "result" /\ op' # "setAnswer") => op' = "submit"
       /\ op' = "submit" =>
            /\ page' = "result"
            /\ submitted'
            /\ \A i \in DOMAIN results_to_save' :
                 RowOf(results_to_save'[i]) \in attempts_table']_vars

\* C8 witness: the first submit of a round failed: no score, not submitted.
C8_Witness ==
    /\ op = "submit_failed"
    /\ ~submitted
    /\ page = "save_error"
    /\ final_score = None

\* C9: after reset load_attempts gives the empty mapping, the fresh pool is
\* the whole bank and a wrong-only pick is empty.
C9_ResetEmpties ==
    op = "reset" =>
        LET attempts == load_attempts(attempts_table)
        IN  /\ DOMAIN attempts = {}
            /\ Pool(questions, attempts, TRUE, FALSE) = questions
            /\ \A n \in Counts, avoid \in BOOLEAN :
                 pick_questions(questions, attempts, n, avoid, TRUE) = {<<>>}

\* C9 witness: a reset of a table that held a wrong and a correct row.
C9_Witness ==
    /\ op = "reset"
    /\ \E r1, r2 \in table_before : r1.is_correct = 0 /\ r2.is_correct = 1

\* C10: only reset removes rows: every interaction but reset and submit
\* leaves the table as it is, and a submit changes only rows of the picked
\* question IDs.
C10_Frame ==
    [][/\ op' \notin {"reset", "submit"} => attempts_table' = attempts_table
       /\ op' # "reset" => IdsOf(attempts_table) \subseteq IdsOf(attempts_table')
       /\ op' = "submit" =>
            {r \in attempts_table  : r.qid \notin PickIds(picked)} =
            {r \in attempts_table' : r.qid \notin PickIds(picked)}]_vars

\* C10 witness: a committed submit with a row of a question that is not
\* picked in the table.
C10_Witness ==
    /\ op = "submit"
    /\ \E r \in attempts_table : r.qid \notin PickIds(picked)

\* the question IDs a start may pick from, by the mode of its pick_args
Eligible ==
    IF pick_args[3] THEN WrongRows
    ELSE IF pick_args[2] THEN Unattempted
    ELSE QIds

\* C17: in every mode a start picks pairwise distinct questions of the mode's
\* pool, exactly min(requested count, pool size) of them.
C17_PickSize ==
    op = "start" =>
        /\ \A i, j \in DOMAIN picked : i # j => picked[i].id # picked[j].id
        /\ \A i \in DOMAIN picked :
             /\ picked[i].id \in Eligible
             /\ \E k \in DOMAIN questions : questions[k] = picked[i]
        /\ Len(picked) = Min(pick_args[1], Cardinality(Eligible))

\* C17 witness: a start that asks for more than the pool of two holds and
\* gets the two.
C17_Witness ==
    /\ op = "start"
    /\ pick_args[1] > Cardinality(Eligible)
    /\ Cardinality(Eligible) = 2
    /\ Len(picked) = 2

\* C17: second witness, a start that asks for less than the pool holds.
C17_WitnessLess ==
    /\ op = "start"
    /\ pick_args[1] < Cardinality(Eligible)
    /\ Len(picked) = pick_args[1]

\* C18: every row of the table is self-consistent: is_correct is 1 iff
\* last_answer is the row's correct_answer, and it is 0 for a NULL
\* last_answer.
C18_RowsConsistent ==
    \A r \in attempts_table :
        /\ r.is_correct \in {0, 1}
        /\ (r.is_correct = 1) <=> (r.last_answer = r.correct_answer)
        /\ r.last_answer = None => r.is_correct = 0

\* C18 witness: the table holds a correct row, a wrong answer and an
\* unanswered question's row after a question was graded twice.
C18_Witness ==
    /\ \E r \in attempts_table : r.is_correct = 1
    /\ \E r \in attempts_table : r.last_answer = None
    /\ \E r \in table_before : r.is_correct = 0 /\ r.last_answer # None
    /\ op = "submit"

\* load_questions has returned or raised
Loaded == normalized.raised # "not called"

\* the bank that load_questions returned
Bank == normalized.bank

\* record q carries an id that is an integer or the text of one, and n is
\* that integer
HasIntegerId(q, n) ==
    /\ "id" \in DOMAIN q
    /\ \/ q.id.t = "int" /\ q.id.v = n
       \/ q.id.t = "str" /\ n >= 0 /\ Strip(q.id.v) = IntChars(n)

\* the integer ids that occur in the raw records of the model
SourceIds == {1, 3, 12}

\* C11: the returned bank never holds two questions with the same ID; when
\* two records of the source carry the same integer id, the load raises or
\* returns a bank that is shorter than the source.
C11_NoDuplicateIds ==
    Loaded =>
        /\ \A i, j \in DOMAIN Bank : i # j => Bank[i].id # Bank[j].id
        /\ \A i, j \in DOMAIN data :
             (i < j /\ \E n \in SourceIds :
                          HasIntegerId(data[i], n) /\ HasIntegerId(data[j], n))
             => (normalized.raised # "no" \/ Len(Bank) < Len(data))

\* C11 witness: a source of two valid records, id 1 and id " 1", has been
\* loaded into a bank of one question.
C11_Witness ==
    /\ normalized.raised = "no"
    /\ Len(data) = 2
    /\ data[1] \in ValidRecords /\ HasIntegerId(data[1], 1) /\ data[1].id.t = "int"
    /\ data[2] \in ValidRecords /\ HasIntegerId(data[2], 1) /\ data[2].id.t = "str"
    /\ Len(Bank) = 1
    /\ Bank[1].id = "Q0001"

\* text t is text s without its leading and trailing whitespace
IsTrimmed(s, t) ==
    \E a \in 0..Len(s) :
        /\ \A i \in 1..a : s[i] \in Whitespace
        /\ \A i \in (a + Len(t) + 1)..Len(s) : s[i] \in Whitespace
        /\ a + Len(t) <= Len(s)
        /\ \A i \in 1..Len(t) : t[i] = s[a + i]
        /\ t # <<>> => (t[1] \notin Whitespace /\ t[Len(t)] \notin Whitespace)

\* question b of the bank was made from raw record q: the id token of b is
\* the four-digit token of the integer id of q
MadeFrom(b, q) ==
    \E n \in SourceIds :
        /\ HasIntegerId(q, n)
        /\ b.id = (CASE n = 1 -> "Q0001" [] n = 3 -> "Q0003" [] n = 12 -> "Q0012")

\* record q passes the checks on the prompt, the options and the index
PassesGate(q) ==
    /\ required_keys \subseteq DOMAIN q
    /\ q.question.t = "str"
    /\ \E i \in DOMAIN q.question.v : q.question.v[i] \notin Whitespace
    /\ q.options.t = "list"
    /\ Len(q.options.v) >= 2
    /\ q.answer.t = "int"
    /\ 0 <= q.answer.v
    /\ q.answer.v < Len(q.options.v)

\* C12: every question of a returned bank has a prompt that is not empty and
\* at least two choices, and was made from a source record that passes the
\* checks: its prompt is a text that is not blank, its options are a list of
\* two or more and its answer index is an integer within the options.
C12_FullValidation ==
    Loaded =>
        \A k \in DOMAIN Bank :
            /\ Bank[k].question # <<>>
            /\ Len(Bank[k].choices) >= 2
            /\ \E i \in DOMAIN data :
                 MadeFrom(Bank[k], data[i]) /\ PassesGate(data[i])

\* record q fails the validation of a single record: a required field is
\* missing, the id is not an integer or the text of one, or the prompt, the
\* options or the index fail their check
Malformed(q) ==
    \/ ~ (required_keys \subseteq DOMAIN q)
    \/ ~ \E n \in SourceIds : HasIntegerId(q, n)
    \/ ~ PassesGate(q)

\* what a load did with the invalid records of its source: it raised
\* ("abort"), it returned a bank with no more questions than the source has
\* well-formed records ("skip"), or it returned more ("accept")
Outcome(result, records) ==
    IF result.raised # "no" THEN "abort"
    ELSE IF Len(result.bank) <=
            Cardinality({i \in DOMAIN records : ~ Malformed(records[i])})
         THEN "skip"
    ELSE "accept"

\* C13: one validation policy for every kind of invalid record: a load whose
\* source holds a malformed record has the outcome (abort the load, or skip
\* the invalid records) that the load of a record with a missing required
\* field has, whichever field is malformed.
C13_UniformPolicy ==
    (Loaded /\ \E i \in DOMAIN data : Malformed(data[i])) =>
        Outcome(normalized, data) =
            Outcome(load_questions(<<MissingField>>), <<MissingField>>)

\* every record of the source satisfies the input schema, option texts and
\* explanation included, and no two records have the same integer id
ValidSource ==
    /\ data # <<>>
    /\ \A i \in DOMAIN data :
         /\ ~ Malformed(data[i])
         /\ \A k \in DOMAIN data[i].options.v : data[i].options.v[k].t = "str"
         /\ "explanation" \in DOMAIN data[i] => data[i].explanation.t = "str"
    /\ \A i, j \in DOMAIN data :
         i # j => ~ \E n \in SourceIds :
                      HasIntegerId(data[i], n) /\ HasIntegerId(data[j], n)

\* C15: the load of a valid source returns one question per record, in
\* source order; the ID of each is the token of the record's integer id, its
\* text the trimmed prompt, its choices the trimmed options in their order,
\* its answer the trimmed text of the option at the answer index, which is
\* one of its choices.
C15_RoundTrip ==
    (Loaded /\ ValidSource) =>
        /\ normalized.raised = "no"
        /\ Len(Bank) = Len(data)
        /\ \A i \in DOMAIN data :
             LET q == data[i]
                 b == Bank[i]
             IN  /\ MadeFrom(b, q)
                 /\ IsTrimmed(q.question.v, b.question)
                 /\ Len(b.choices) = Len(q.options.v)
                 /\ \A k \in DOMAIN b.choices :
                      IsTrimmed(q.options.v[k].v, b.choices[k])
                 /\ IsTrimmed(q.options.v[q.answer.v + 1].v, b.answer)
                 /\ b.answer = b.choices[q.answer.v + 1]
                 /\ \E k \in DOMAIN b.choices : b.choices[k] = b.answer

\* C15 witness: a valid source of two records, id 12 before id 1, with padded
\* prompt and options, has been loaded in that order with the texts trimmed.
C15_Witness ==
    /\ Loaded
    /\ ValidSource
    /\ Len(data) = 2
    /\ data[2].question.v = PromptPadded
    /\ Len(Bank) = 2
    /\ Bank[1].id = "Q0012" /\ Bank[1].answer = <<"M">>
    /\ Bank[2].id = "Q0001" /\ Bank[2].question = <<"P", "1">>
    /\ Bank[2].answer = <<"A">>

Abs(x) == IF x < 0 THEN 0 - x ELSE x

\* C14: the reported score is the percentage of correct answers rounded to
\* one decimal place: it is within half a tenth of 100 * score / n (1 of 3
\* reports 33.3, 2 of 3 reports 66.7).
C14_ScoreOneDecimal ==
    tally.done =>
        2 * Abs(10 * tally.final_score * tally.n - 1000 * tally.score) <= tally.n

\* the rows of the batch of instance i
BatchRows(i) == {RowOf(inst[i].batch[k]) : k \in DOMAIN inst[i].batch}

\* the instances whose save has committed
Committed == {i \in Instances : inst[i].pc = "committed"}

\* both saves have ended
BothEnded == \A i \in Instances : inst[i].pc \in {"committed", "failed"}

\* C16: with two instances saving batches on one store, in every
\* interleaving the table holds one row per question ID and every row is, in
\* all fields together, a row of the batch of an instance that committed;
\* once both saves have ended, a question written by one committed instance
\* only has that instance's row, and every committed question has a row.
C16_WholeRows ==
    /\ \A r1, r2 \in attempts_table : r1.qid = r2.qid => r1 = r2
    /\ \A r \in attempts_table : \E i \in Committed : r \in BatchRows(i)
    /\ BothEnded =>
         \A i \in Committed : \A r \in BatchRows(i) :
            /\ \E x \in attempts_table : x.qid = r.qid
            /\ (\A j \in Committed \ {i} : \A x \in BatchRows(j) : x.qid # r.qid)
               => r \in attempts_table

\* C16 witness: both instances have committed, their batches hold different
\* rows for Q0001, of which the table has the one of instance 2, and only
\* instance 1 wrote Q0002, whose row is in the table.
C16_Witness ==
    /\ Committed = Instances
    /\ \E r1 \in BatchRows(1), r2 \in BatchRows(2) :
         /\ r1.qid = "Q0001" /\ r2.qid = "Q0001"
         /\ r1.is_correct # r2.is_correct
         /\ r2 \in attempts_table
    /\ \E r1 \in BatchRows(1) : r1.qid = "Q0002" /\ r1 \in attempts_table
    /\ \A r2 \in BatchRows(2) : r2.qid # "Q0002"

\* C19: in a session of fresh-mode rounds without reset, a start never
\* picks a question that has been submitted; the first committed submit of
\* a round takes its picks out of the fresh pool, which becomes strictly
\* smaller; and eventually a start finds the fresh pool empty and picks
\* nothing.
C19_FreshExhausts ==
    /\ [](op = "start" => PickIds(picked) \cap DOMAIN last_submit = {})
    /\ [][(~ submitted /\ op' = "submit") =>
            /\ picked # <<>>
            /\ Unattempted' = Unattempted \ PickIds(picked)
            /\ Unattempted' # Unattempted]_vars
    /\ <>(op = "start" /\ Unattempted = {} /\ picked = <<>>)

\* C19 witness: every question of the bank has been submitted and the
\* fresh-mode start after it has picked nothing.
C19_Witness ==
    /\ op = "start"
    /\ pick_args = <<NInputMin, TRUE, FALSE>>
    /\ DOMAIN last_submit = QIds
    /\ Unattempted = {}
    /\ picked = <<>>
    /\ page = "info"

====
